---- MODULE Spec2Model ----
(***************************************************************************)
(* Order lifecycle, derived-document generation, sequence numbering,       *)
(* products, payments and budget revisions of the furniture trading        *)
(* application, as implemented by its API route handlers and dashboard     *)
(* pages.  Every                                                           *)
(* action is one awaited persistence operation of one handler; a request   *)
(* slot carries the handler's local variables between its awaits, so that  *)
(* handlers interleave exactly at their await points.                      *)
(*                                                                         *)
(* The auto-analytical engine (lib/auto-analytical) and the payment routes *)
(* (/api/payments) are not among the sources; they follow the written      *)
(* specification, their callers follow the source.                         *)
(*                                                                         *)
(* Stored money is in hundredths of the currency unit; what a handler      *)
(* computes before storing is in hundredths of those, so that              *)
(* quantity * unitPrice * taxRate / 100 is exact.  The decimal columns     *)
(* (the schema is not among the sources) keep two places and round half    *)
(* up on insert.                                                           *)
(***************************************************************************)
EXTENDS Integers, Sequences, FiniteSets, TLC

VARIABLES
    orders,      \* purchaseOrder / salesOrder rows, with their line rows
    docs,        \* vendorBill rows (of "PO") and invoice rows (of "SO")
    sequences,   \* sequence rows: nextNumber, 0 when the row does not exist
    issued,      \* per sequence name, the values getNextSequence returned
    contacts,    \* contact rows (their codes)
    products,    \* product rows
    rules,       \* autoAnalyticalRule rows
    payments,    \* payment rows, live or deleted
    today,       \* the server's clock, in days
    page,        \* a dashboard page: the document row it shows and its badge
    budgets,     \* budget rows
    req,         \* the request slots: handler position and local variables
    started      \* number of requests begun

vars == <<orders, docs, sequences, issued, contacts, products, rules, payments,
          today, page, budgets, req, started>>

\* the tables only the product, payment and budget handlers write, the
\* clock and the dashboard page
ledger == <<products, rules, payments, today, page, budgets>>

----------------------------------------------------------------------------
(* Bounds *)

\* requests begun in a run in which handlers interleave
MaxRequests == 2

\* requests begun in a run in which each request ends before the next begins
MaxSerial == 2

\* the last day the clock reaches
MaxDay == 2

Reqs == {"r1", "r2"}

\* "PO": purchase orders and vendor bills; "SO": sales orders and invoices
Families == {"PO", "SO"}

Statuses == {"DRAFT", "SENT", "CONFIRMED", "CANCELLED"}

----------------------------------------------------------------------------
(* Request bodies *)

\* a line of product 1, its cost centre left to the rules
LineA ==
    [productId |-> 1, quantity |-> 2, unitPrice |-> 10000, taxRate |-> 18,
     analyticalAccountId |-> "NONE"]

LineB ==
    [productId |-> 1, quantity |-> 1, unitPrice |-> 5000, taxRate |-> 0,
     analyticalAccountId |-> "NONE"]

\* a line of 1 x 0.25 at 18%: its tax is 0.045
LineC ==
    [productId |-> 1, quantity |-> 1, unitPrice |-> 25, taxRate |-> 18,
     analyticalAccountId |-> "NONE"]

BodyLines == {<<LineA>>, <<LineB, LineA>>}

\* bodies whose taxes have a third decimal place
SmallLines == {<<LineC>>, <<LineC, LineC>>, <<LineC, LineA>>}

----------------------------------------------------------------------------
(* Document numbers: strings of a prefix, '-', and decimal digits *)

Cents == 100

Radix == 10

RECURSIVE Digits(_)
\* Number.prototype.toString / String(n): the decimal digits of n >= 0
Digits(n) ==
    IF n < Radix THEN <<n>> ELSE Append(Digits(n \div Radix), n % Radix)

RECURSIVE PadStart(_, _)
\* String.prototype.padStart(len, '0')
PadStart(s, len) ==
    IF Len(s) >= len THEN s ELSE PadStart(<<0>> \o s, len)

RECURSIVE ParseInt(_)
\* parseInt of a string of decimal digits
ParseInt(s) ==
    IF s = <<>> THEN 0
    ELSE ParseInt(SubSeq(s, 1, Len(s) - 1)) * Radix + s[Len(s)]

RECURSIVE StrLess(_, _)
\* string order of the store (orderBy): lexicographic, a proper prefix first
StrLess(a, b) ==
    IF b = <<>> THEN FALSE
    ELSE IF a = <<>> THEN TRUE
    ELSE IF a[1] # b[1] THEN a[1] < b[1]
    ELSE StrLess(Tail(a), Tail(b))

DocPadding == 5

DocPrefix(fam) == IF fam = "PO" THEN "BILL" ELSE "INV"

NoNumber == [prefix |-> "", digits |-> <<>>]

\* `${prefix}-${String(n).padStart(padding, '0')}`
FormatNumber(prefix, n, padding) ==
    [prefix |-> prefix, digits |-> PadStart(Digits(n), padding)]

\* findFirst({ orderBy: { billNumber: 'desc' } }): the row whose number is
\* last in string order; its digits, or <<>> when the table is empty
LastNumberDigits(table) ==
    IF table = <<>> THEN <<>>
    ELSE LET i == CHOOSE j \in DOMAIN table :
                    \A k \in DOMAIN table :
                        ~StrLess(table[j].number.digits, table[k].number.digits)
         IN table[i].number.digits

\* the last number used again
NextDocNumberRepeated(lastNum, fam) ==
    FormatNumber(DocPrefix(fam), lastNum, DocPadding)

\* lastNum + 1, formatted
NextDocNumberAfter(lastNum, fam) ==
    FormatNumber(DocPrefix(fam), lastNum + 1, DocPadding)

\* const lastNum = last ? parseInt(last.number.replace(prefix + '-', '')) : 0
NextDocNumber(table, fam) ==
    NextDocNumberAfter(ParseInt(LastNumberDigits(table)), fam)

----------------------------------------------------------------------------
(* Sequence table *)

SeqNames == {"contact", "product", "purchase_order"}

SeqPadding == 5

\* SEQUENCE_DEFAULTS[name] || { prefix: name.toUpperCase().slice(0, 4), padding: 5 }
SeqPrefix(name) ==
    IF name = "contact" THEN "CONT"
    ELSE IF name = "product" THEN "PROD"
    ELSE "PURC"

\* the increment lost
SeqIncrementLost(n) == n

\* data: { nextNumber: { increment: 1 } }
SeqIncrement(n) == n + 1

\* (updated.nextNumber - 1).toString().padStart(updated.padding, '0')
SeqValue(name, updatedNext) ==
    FormatNumber(SeqPrefix(name), updatedNext - 1, SeqPadding)

----------------------------------------------------------------------------
(* Products and auto-analytical rules *)

NoAccount == "NONE"

\* a price of a request body: a number, or the key left out (undefined)
Price(v) == [given |-> TRUE, value |-> v]

NoPrice == [given |-> FALSE, value |-> 0]

\* the second argument the callers of applyAutoAnalyticalToLines leave out
NoPartner == "UNDEFINED"

\* body.vendorId / body.customerId of the orders created
OrderPartner == "P"

\* categoryId: null
NoCategory == "NULL"

\* the ids of the user-defined categories: UUIDs, the identifiers with a '-'
CustomCategoryIds == {"C", "D"}

\* the store's products: product 1 of the user-defined category C without a
\* default cost centre, product 2 of the user-defined category D with one
InitProducts ==
    << [purchasePrice |-> 50, salePrice |-> 100, category |-> "CUSTOM",
        categoryId |-> "C", analyticalAccountId |-> NoAccount],
       [purchasePrice |-> 50, salePrice |-> 50, category |-> "CUSTOM",
        categoryId |-> "D", analyticalAccountId |-> "AccP"] >>

\* rule A: category C only (partnerTag is null in the rules here)
RuleA ==
    [partnerId |-> "NONE", productCategoryId |-> "C", productId |-> 0,
     analyticalAccountId |-> "AccA", autoApply |-> TRUE, status |-> "CONFIRMED"]

\* rule B: category C and partner P
RuleB ==
    [partnerId |-> "P", productCategoryId |-> "C", productId |-> 0,
     analyticalAccountId |-> "AccB", autoApply |-> TRUE, status |-> "CONFIRMED"]

\* specificity: the number of non-null fields of the rule
Specificity(rule) ==
    (IF rule.partnerId # "NONE" THEN 1 ELSE 0)
    + (IF rule.productCategoryId # "NONE" THEN 1 ELSE 0)
    + (IF rule.productId # 0 THEN 1 ELSE 0)

\* autoApply, CONFIRMED, and every non-null field equals the line's attribute
RuleMatches(rule, productId, partnerId) ==
    /\ rule.autoApply
    /\ rule.status = "CONFIRMED"
    /\ rule.partnerId # "NONE" => rule.partnerId = partnerId
    /\ rule.productCategoryId # "NONE"
          => rule.productCategoryId = products[productId].categoryId
    /\ rule.productId # 0 => rule.productId = productId

\* the matching rules of the highest specificity
BestRules(productId, partnerId) ==
    LET matching == {rule \in rules : RuleMatches(rule, productId, partnerId)}
    IN {rule \in matching :
            \A other \in matching : Specificity(other) <= Specificity(rule)}

\* an explicit cost centre passes through; else the most specific matching
\* rule's; else the product's own default, else none
ResolveAnalyticalAccount(line, partnerId) ==
    IF line.analyticalAccountId # NoAccount THEN line.analyticalAccountId
    ELSE LET best == BestRules(line.productId, partnerId)
         IN IF best # {}
            THEN (CHOOSE rule \in best : TRUE).analyticalAccountId
            ELSE products[line.productId].analyticalAccountId

\* const linesWithAnalytical = await applyAutoAnalyticalToLines(body.lines):
\* the lines are all the engine is given
ApplyAutoAnalyticalToLines(ls) ==
    [i \in DOMAIN ls |->
        [ls[i] EXCEPT !.analyticalAccountId =
                          ResolveAnalyticalAccount(ls[i], NoPartner)]]

----------------------------------------------------------------------------
(* Order lines and totals *)

RECURSIVE SumSeq(_)
SumSeq(s) == IF s = <<>> THEN 0 ELSE Head(s) + SumSeq(Tail(s))

\* parseDecimal(line.quantity) * parseDecimal(line.unitPrice), in hundredths
\* of a hundredth
LineSubtotal(line) == line.quantity * line.unitPrice * Cents

\* lineSubtotal * (taxRate / 100), in hundredths of a hundredth
LineTax(line) == line.quantity * line.unitPrice * line.taxRate

\* a computed amount as its decimal column keeps it: two places, half up
StoreDecimal(x) == (x + Cents \div 2) \div Cents

\* the row a body line is stored as
StoredLine(line) ==
    [productId |-> line.productId,
     quantity |-> line.quantity, unitPrice |-> line.unitPrice,
     taxRate |-> line.taxRate, taxAmount |-> StoreDecimal(LineTax(line)),
     lineTotal |-> StoreDecimal(LineSubtotal(line) + LineTax(line)),
     analyticalAccountId |-> line.analyticalAccountId]

\* const lines = linesWithAnalytical.map(line => ({ ... }))
ComputeLines(ls) ==
    [i \in DOMAIN ls |-> StoredLine(ApplyAutoAnalyticalToLines(ls)[i])]

\* subtotal += lineSubtotal, as stored
Subtotal(ls) == StoreDecimal(SumSeq([i \in DOMAIN ls |-> LineSubtotal(ls[i])]))

\* taxAmount += lineTax, as stored
TaxAmount(ls) == StoreDecimal(SumSeq([i \in DOMAIN ls |-> LineTax(ls[i])]))

\* const totalAmount = subtotal + taxAmount, as stored
TotalAmount(ls) ==
    StoreDecimal(SumSeq([i \in DOMAIN ls |-> LineSubtotal(ls[i]) + LineTax(ls[i])]))

SumLineTotals(stored) == SumSeq([i \in DOMAIN stored |-> stored[i].lineTotal])

----------------------------------------------------------------------------
(* Rows *)

\* a second vendor (customer), whose contact row has no email address
OtherPartner == "Q"

\* order.vendor?.email, order.customer?.email
HasEmail(partnerId) == partnerId # OtherPartner

\* expectedDate: null
NoDate == 0

\* the expected date of the order that has one, as a day of the clock
ExpectedDay == 10

\* 30 * 24 * 60 * 60 * 1000 milliseconds, in days
DueDays == 30

NoOrder ==
    [id |-> 0, status |-> "NONE", orderNumber |-> NoNumber,
     orderDate |-> NoDate, expectedDate |-> NoDate,
     partnerId |-> "NONE", lines |-> <<>>, subtotal |-> 0, taxAmount |-> 0, totalAmount |-> 0]

\* prisma.purchaseOrder.create: status: body.status || 'DRAFT', totals, lines,
\* orderDate: body.orderDate ? new Date(body.orderDate) : new Date(),
\* expectedDate: body.expectedDate ? new Date(body.expectedDate) : null
\* for a body that has neither date
NewOrder(id, number, st, ls) ==
    [id |-> id,
     status |-> IF st = "UNDEFINED" THEN "DRAFT" ELSE st,
     orderNumber |-> number,
     orderDate |-> today, expectedDate |-> NoDate,
     partnerId |-> OrderPartner,
     lines |-> ComputeLines(ls), subtotal |-> Subtotal(ls),
     taxAmount |-> TaxAmount(ls), totalAmount |-> TotalAmount(ls)]

\* the cost centre not carried over
DocLineWithoutAccount(line) ==
    [productId |-> line.productId,
     quantity |-> line.quantity, unitPrice |-> line.unitPrice,
     taxRate |-> line.taxRate, taxAmount |-> line.taxAmount,
     lineTotal |-> line.lineTotal, analyticalAccountId |-> NoAccount]

\* order.lines.map((line) => ({ productId: line.productId, quantity:
\*   line.quantity, unitPrice: line.unitPrice, taxRate: line.taxRate, taxAmount:
\*   line.taxAmount, lineTotal: line.lineTotal, analyticalAccountId:
\*   line.analyticalAccountId }))
DocLine(line) ==
    [productId |-> line.productId,
     quantity |-> line.quantity, unitPrice |-> line.unitPrice,
     taxRate |-> line.taxRate, taxAmount |-> line.taxAmount,
     lineTotal |-> line.lineTotal, analyticalAccountId |-> line.analyticalAccountId]

\* dueDate: order.expectedDate || new Date(Date.now() + 30 * 24 * 60 * 60 * 1000)
DueDate(order) ==
    IF order.expectedDate # NoDate THEN order.expectedDate ELSE today + DueDays

\* the vendor bill / invoice built from an order as a handler read it
NewDoc(order, number, docStatus) ==
    [orderId |-> order.id, number |-> number, status |-> docStatus,
     dueDate |-> DueDate(order),
     subtotal |-> order.subtotal, taxAmount |-> order.taxAmount,
     totalAmount |-> order.totalAmount, paidAmount |-> 0,
     lines |-> [i \in DOMAIN order.lines |-> DocLine(order.lines[i])]]

\* the rows of the family's document table that reference order id
DocsOf(fam, id) == {i \in DOMAIN docs[fam] : docs[fam][i].orderId = id}

OrderIds(fam) == DOMAIN orders[fam]

\* before is no local of a handler: it keeps the order row as a line update
\* found it, for stating what a failed update leaves behind
IdleReq ==
    [pc |-> "idle", kind |-> "NONE", fam |-> "NONE", id |-> 0,
     status |-> "UNDEFINED", lines |-> <<>>, queue |-> <<>>, before |-> NoOrder,
     number |-> NoNumber, docStatus |-> "NONE", amount |-> 0,
     salePrice |-> NoPrice, purchasePrice |-> NoPrice,
     categoryId |-> "UNDEFINED",
     caller |-> "NONE", code |-> 0, email |-> "NONE",
     resp |-> "NONE", doc |-> "NONE"]

\* the slot when its handler has returned: response and log outcome are kept
Returned(q, resp, doc) ==
    [IdleReq EXCEPT !.pc = "done", !.kind = q.kind, !.fam = q.fam, !.id = q.id,
                    !.status = q.status, !.amount = q.amount,
                    !.resp = resp, !.doc = doc]

Free(r) == req[r].pc \in {"idle", "done"}

----------------------------------------------------------------------------
(* The store after two purchase orders and two sales orders were created   *)
(* (POST with one line, the first with status SENT, the second with an     *)
(* expected date and for the partner without an email address) and nothing *)
(* else.                                                                   *)

InitOrders(prefix) ==
    << NewOrder(1, FormatNumber(prefix, 1, SeqPadding), "SENT", <<LineA>>),
       [NewOrder(2, FormatNumber(prefix, 2, SeqPadding), "UNDEFINED", <<LineA>>)
           EXCEPT !.expectedDate = ExpectedDay, !.partnerId = OtherPartner] >>

SetOrder(fam, id, row) == [orders EXCEPT ![fam][id] = row]

SetReq(r, q) == [req EXCEPT ![r] = q]

\* no document row shown
NoPage == [totalAmount |-> 0, paidAmount |-> 0, badge |-> "NONE"]

\* no budget: revisedBudgetId undefined
NoBudget == 0

\* the store's budgets: two confirmed budgets that revise none
InitBudgets ==
    << [stage |-> "CONFIRM", revisedBudgetId |-> NoBudget],
       [stage |-> "CONFIRM", revisedBudgetId |-> NoBudget] >>

Init ==
    /\ today = 1
    /\ page = NoPage
    /\ budgets = InitBudgets
    /\ products = InitProducts
    /\ rules = {RuleA, RuleB}
    /\ orders = [f \in Families |->
                    InitOrders(IF f = "PO" THEN SeqPrefix("purchase_order") ELSE "SO")]
    /\ docs = [f \in Families |-> <<>>]
    /\ sequences = [n \in SeqNames |-> IF n = "purchase_order" THEN 3 ELSE 0]
    /\ issued = [n \in SeqNames |->
                    IF n = "purchase_order"
                    THEN <<SeqValue(n, 2), SeqValue(n, 3)>> ELSE <<>>]
    /\ contacts = <<>>
    /\ payments = <<>>
    /\ req = [r \in Reqs |-> IdleReq]
    /\ started = 0

----------------------------------------------------------------------------
(* Derived-document generation: the block every confirming handler runs    *)
(* after it has set the status.                                            *)

\* where a handler goes after its status update: to the existence check
\* when body.status === 'CONFIRMED' and the handler has the block, to the
\* email when body.status === 'SENT' and the counterparty has an address,
\* else back
AfterStatus(q, fam, id, st, snapshot, docStatus, generates) ==
    IF st = "CONFIRMED" /\ generates
    THEN [q EXCEPT !.pc = "findExisting", !.queue = <<snapshot>>,
                   !.docStatus = docStatus]
    ELSE IF st = "SENT" /\ generates
    THEN IF HasEmail(snapshot.partnerId)
         THEN [q EXCEPT !.pc = "sendEmail", !.queue = <<snapshot>>]
         ELSE [Returned(q, "ok", "NONE") EXCEPT !.email = "noAddress"]
    ELSE Returned(q, "ok", "NONE")

\* what sendEmail can do: return true, return false (its own catch around
\* transporter.sendMail), or an exception of the email block
EmailOutcomes == {"sent", "false", "thrown"}

\* the exception reaching the handler's outer catch, which answers 500
EmailResponseRethrown(outcome) == IF outcome = "thrown" THEN "error" ELSE "ok"

\* try { ...; await sendEmail({ ... }) } catch (emailError) { console.error(...) }
\* the returned boolean is not read; the handler goes on to
\* return NextResponse.json({ order })
EmailResponse(outcome) == "ok"

SendEmail(r) ==
    /\ req[r].pc = "sendEmail"
    /\ \E outcome \in EmailOutcomes :
          req' = SetReq(r, [Returned(req[r], EmailResponse(outcome), "NONE") EXCEPT
                               !.email = outcome])
    /\ UNCHANGED <<ledger, orders, docs, sequences, issued, contacts, started>>

\* the existence check left out
ExistingDocSkipped(fam, id) == FALSE

\* const existing = await prisma.vendorBill.findFirst({ where: { purchaseOrderId: id } })
ExistingDoc(fam, id) == DocsOf(fam, id) # {}

FindExisting(r) ==
    /\ req[r].pc = "findExisting"
    /\ req' = SetReq(r, IF ExistingDoc(req[r].fam, req[r].id)
                        THEN Returned(req[r], "ok", "existing")
                        ELSE [req[r] EXCEPT !.pc = "findLast"])
    /\ UNCHANGED <<ledger, orders, docs, sequences, issued, contacts, started>>

\* const lastBill = await prisma.vendorBill.findFirst({ orderBy: { billNumber: 'desc' } })
FindLast(r) ==
    /\ req[r].pc = "findLast"
    /\ req' = SetReq(r, [req[r] EXCEPT
                            !.pc = "createDoc",
                            !.number = NextDocNumber(docs[req[r].fam], req[r].fam)])
    /\ UNCHANGED <<ledger, orders, docs, sequences, issued, contacts, started>>

\* the document number column is unique: a second row with the number is refused
NumberTaken(table, number) == \E i \in DOMAIN table : table[i].number = number

\* the failure reaching the handler's outer catch, which answers 500
OnCreateFailureRethrown(q) == Returned(q, "error", "failed")

\* catch (billError) { console.error('Failed to create vendor bill:', billError) }
\* and the handler goes on to return its success response
OnCreateFailure(q) == Returned(q, "ok", "failed")

\* await prisma.vendorBill.create({ data: { ..., lines: { create: ... } } }),
\* which throws on a store error (dbError) or a refused row; the route
\* handlers catch and log, the backfill script's catch ends its loop
CreateDoc(r) ==
    /\ req[r].pc = "createDoc"
    /\ \E dbError \in BOOLEAN :
        LET q == req[r]
            fails == dbError \/ NumberTaken(docs[q.fam], q.number)
            rest == Tail(q.queue)
        IN /\ docs' = IF fails THEN docs
                      ELSE [docs EXCEPT ![q.fam] =
                              Append(@, NewDoc(Head(q.queue), q.number, q.docStatus))]
           /\ req' = SetReq(r,
                        IF fails THEN OnCreateFailure(q)
                        ELSE IF rest = <<>> THEN Returned(q, "ok", "created")
                        ELSE [q EXCEPT !.pc = "findLast", !.queue = rest,
                                       !.number = NoNumber])
    /\ UNCHANGED <<ledger, orders, sequences, issued, contacts, started>>

----------------------------------------------------------------------------
(* PUT /api/purchase-orders/[id] and PUT /api/sales-orders/[id]            *)

\* the lines of the order's documents deleted with the order's lines
DocsAfterDeleteManyCascade(fam, id) ==
    [docs EXCEPT ![fam] =
        [i \in DOMAIN @ |-> IF @[i].orderId = id THEN [@[i] EXCEPT !.lines = <<>>]
                            ELSE @[i]]]

\* deleteMany is on the order's line table (purchaseOrderLine, salesOrderLine):
\* the bill and invoice line tables hold rows of their own and keep them
DocsAfterDeleteMany(fam, id) == docs

\* if (body.lines): await prisma.purchaseOrderLine.deleteMany({ where: { purchaseOrderId: id } })
PutLinesBegin(r, fam, id, st, ls) ==
    /\ Free(r)
    /\ id \in OrderIds(fam)
    /\ orders' = SetOrder(fam, id, [orders[fam][id] EXCEPT !.lines = <<>>])
    /\ docs' = DocsAfterDeleteMany(fam, id)
    /\ req' = SetReq(r, [IdleReq EXCEPT !.pc = "createMany", !.kind = "PUT_LINES",
                                        !.fam = fam, !.id = id, !.status = st,
                                        !.lines = ls, !.before = orders[fam][id]])
    /\ started' = started + 1
    /\ UNCHANGED <<ledger, sequences, issued, contacts>>

\* catch (error) { return NextResponse.json({ error: 'Failed to update
\* purchase order' }, { status: 500 }) }: the store stays as the throw found it
OnUpdateFailure(q) == orders

\* the slot of a line update that ended in the handler's catch
UpdateFailed(q) == [Returned(q, "error", "NONE") EXCEPT !.before = q.before]

\* const linesWithAnalytical = await applyAutoAnalyticalToLines(body.lines);
\* await prisma.purchaseOrderLine.createMany({ data: lines }); either may throw
CreateMany(r) ==
    /\ req[r].pc = "createMany"
    /\ \E dbError \in BOOLEAN :
        LET q == req[r]
        IN IF dbError
           THEN /\ orders' = OnUpdateFailure(q)
                /\ req' = SetReq(r, UpdateFailed(q))
           ELSE /\ orders' = SetOrder(q.fam, q.id,
                                [orders[q.fam][q.id] EXCEPT
                                    !.lines = @ \o ComputeLines(q.lines)])
                /\ req' = SetReq(r, [q EXCEPT !.pc = "updateHeader"])
    /\ UNCHANGED <<ledger, docs, sequences, issued, contacts, started>>

\* the purchase-order PUT has the generation block after its line update,
\* the sales-order PUT returns right after the update
PutLinesGenerates(fam) == fam = "PO"

\* const order = await prisma.purchaseOrder.update({ data: { status: body.status,
\*   subtotal, taxAmount, totalAmount, ... }, include: { lines } })
\* which may throw
UpdateHeader(r) ==
    /\ req[r].pc = "updateHeader"
    /\ \E dbError \in BOOLEAN :
        LET q == req[r]
            row == [orders[q.fam][q.id] EXCEPT
                       !.status = IF q.status = "UNDEFINED" THEN @ ELSE q.status,
                       !.subtotal = Subtotal(q.lines),
                       !.taxAmount = TaxAmount(q.lines),
                       !.totalAmount = TotalAmount(q.lines)]
        IN IF dbError
           THEN /\ orders' = OnUpdateFailure(q)
                /\ req' = SetReq(r, UpdateFailed(q))
           ELSE /\ orders' = SetOrder(q.fam, q.id, row)
                /\ req' = SetReq(r, AfterStatus([q EXCEPT !.before = NoOrder],
                                                q.fam, q.id, q.status, row, "POSTED",
                                                PutLinesGenerates(q.fam)))
    /\ UNCHANGED <<ledger, docs, sequences, issued, contacts, started>>

\* the document status the handler's generation block writes
SimpleDocStatus(fam) == IF fam = "PO" THEN "DRAFT" ELSE "POSTED"

\* PUT without lines, and PATCH /api/sales-orders/[id]:
\* const order = await prisma.salesOrder.update({ data: { status: body.status }, include: { lines } })
StatusBegin(r, kind, fam, id, st) ==
    /\ Free(r)
    /\ id \in OrderIds(fam)
    /\ kind = "PATCH" => fam = "SO"
    /\ LET row == [orders[fam][id] EXCEPT !.status = st]
           q == [IdleReq EXCEPT !.kind = kind, !.fam = fam, !.id = id, !.status = st]
       IN /\ orders' = SetOrder(fam, id, row)
          /\ req' = SetReq(r, AfterStatus(q, fam, id, st, row,
                                          SimpleDocStatus(fam), TRUE))
    /\ started' = started + 1
    /\ UNCHANGED <<ledger, docs, sequences, issued, contacts>>

\* GET /api/purchase-orders/[id], GET /api/sales-orders/[id]:
\* const order = await prisma.purchaseOrder.findUnique({ where: { id },
\*   include: { lines } }); return NextResponse.json({ order })
GetBegin(r, fam, id) ==
    /\ Free(r)
    /\ id \in OrderIds(fam)
    /\ LET q == [IdleReq EXCEPT !.kind = "GET", !.fam = fam, !.id = id]
       IN req' = SetReq(r, [Returned(q, "ok", "NONE") EXCEPT
                               !.queue = <<orders[fam][id]>>])
    /\ started' = started + 1
    /\ UNCHANGED <<ledger, orders, docs, sequences, issued, contacts>>

----------------------------------------------------------------------------
(* DELETE /api/purchase-orders/[id] and DELETE /api/sales-orders/[id]      *)

\* the comparison off by one
DeleteRefusedAboveOne(linked) == linked > 1

\* if (linkedBills > 0) return 400
DeleteRefused(linked) == linked > 0

\* const linkedBills = await prisma.vendorBill.count({ where: { purchaseOrderId: id } })
DeleteBegin(r, fam, id) ==
    /\ Free(r)
    /\ id \in OrderIds(fam)
    /\ LET q == [IdleReq EXCEPT !.kind = "DELETE", !.fam = fam, !.id = id]
       IN req' = SetReq(r, IF DeleteRefused(Cardinality(DocsOf(fam, id)))
                           THEN Returned(q, "error", "NONE")
                           ELSE [q EXCEPT !.pc = "cancelUpdate"])
    /\ started' = started + 1
    /\ UNCHANGED <<ledger, orders, docs, sequences, issued, contacts>>

\* await prisma.purchaseOrder.update({ where: { id }, data: { status: 'CANCELLED' } })
CancelUpdate(r) ==
    /\ req[r].pc = "cancelUpdate"
    /\ LET q == req[r]
       IN /\ orders' = SetOrder(q.fam, q.id,
                                [orders[q.fam][q.id] EXCEPT !.status = "CANCELLED"])
          /\ req' = SetReq(r, Returned(q, "ok", "NONE"))
    /\ UNCHANGED <<ledger, docs, sequences, issued, contacts, started>>

----------------------------------------------------------------------------
(* POST /api/vendor/orders/[id]/confirm                                    *)

\* the contacts a vendor user is linked to (user.contactId)
Vendors == {OrderPartner, OtherPartner}

\* the owner test left out
VendorConfirmCodeAnyVendor(id, contactId) ==
    IF id \notin OrderIds("PO") THEN 404
    ELSE IF orders["PO"][id].status # "SENT" THEN 400
    ELSE 200

\* if (!order) return 404; if (order.vendorId !== user.contactId) return 403;
\* if (order.status !== 'SENT') return 400
VendorConfirmCode(id, contactId) ==
    IF id \notin OrderIds("PO") THEN 404
    ELSE IF orders["PO"][id].partnerId # contactId THEN 403
    ELSE IF orders["PO"][id].status # "SENT" THEN 400
    ELSE 200

\* a vendor user with a linked contact calls the route:
\* const order = await prisma.purchaseOrder.findUnique({ include: { lines } })
\* and the three tests on it
VendorConfirmBegin(r, id, contactId) ==
    /\ Free(r)
    /\ LET q == [IdleReq EXCEPT !.kind = "VENDOR_CONFIRM", !.fam = "PO", !.id = id,
                                !.status = "CONFIRMED", !.caller = contactId,
                                !.code = VendorConfirmCode(id, contactId)]
       IN req' = SetReq(r, IF q.code # 200
                           THEN [Returned(q, "error", "NONE") EXCEPT
                                    !.caller = contactId, !.code = q.code]
                           ELSE [q EXCEPT !.pc = "confirmUpdate",
                                          !.queue = <<orders["PO"][id]>>])
    /\ started' = started + 1
    /\ UNCHANGED <<ledger, orders, docs, sequences, issued, contacts>>

\* await prisma.purchaseOrder.update({ where: { id }, data: { status: 'CONFIRMED' } })
ConfirmUpdate(r) ==
    /\ req[r].pc = "confirmUpdate"
    /\ LET q == req[r]
       IN /\ orders' = SetOrder("PO", q.id,
                                [orders["PO"][q.id] EXCEPT !.status = "CONFIRMED"])
          /\ req' = SetReq(r, [q EXCEPT !.pc = "findExisting", !.docStatus = "DRAFT"])
    /\ UNCHANGED <<ledger, docs, sequences, issued, contacts, started>>

----------------------------------------------------------------------------
(* The bill backfill script, createBillsForConfirmedPOs                    *)

\* for (const po of confirmedPOs) if (po.vendorBills.length === 0) ...
NeedsBill(po) == po.status = "CONFIRMED" /\ DocsOf("PO", po.id) = {}

\* const confirmedPOs = await prisma.purchaseOrder.findMany({ where: { status:
\*   'CONFIRMED' }, include: { lines: true, vendorBills: true } })
BackfillBegin(r) ==
    /\ Free(r)
    /\ LET q == [IdleReq EXCEPT !.kind = "BACKFILL", !.fam = "PO"]
           todo == SelectSeq(orders["PO"], NeedsBill)
       IN req' = SetReq(r, IF todo = <<>> THEN Returned(q, "ok", "NONE")
                           ELSE [q EXCEPT !.pc = "findLast", !.queue = todo,
                                          !.docStatus = "DRAFT"])
    /\ started' = started + 1
    /\ UNCHANGED <<ledger, orders, docs, sequences, issued, contacts>>

----------------------------------------------------------------------------
(* getNextSequence, and its callers POST /api/purchase-orders,             *)
(* POST /api/contacts and POST /api/products                               *)

SeqNameOf(kind) ==
    IF kind = "PO_POST" THEN "purchase_order"
    ELSE IF kind = "PRODUCT_POST" THEN "product"
    ELSE "contact"

\* let sequence = await prisma.sequence.findUnique({ where: { name: sequenceName } })
SeqCallBegin(r, kind, st, ls) ==
    /\ Free(r)
    /\ req' = SetReq(r, [IdleReq EXCEPT
                            !.pc = IF sequences[SeqNameOf(kind)] = 0
                                   THEN "seqCreate" ELSE "seqUpdate",
                            !.kind = kind, !.status = st, !.lines = ls,
                            !.fam = IF kind = "PO_POST" THEN "PO" ELSE "NONE"])
    /\ started' = started + 1
    /\ UNCHANGED <<ledger, orders, docs, sequences, issued, contacts>>

\* sequence = await prisma.sequence.create({ data: { name, nextNumber: 1, ... } });
\* name is the row's unique key (findUnique by it), so a second create throws
\* and the calling handler answers 500
SeqCreate(r) ==
    /\ req[r].pc = "seqCreate"
    /\ LET q == req[r]
           name == SeqNameOf(q.kind)
       IN IF sequences[name] # 0
          THEN /\ req' = SetReq(r, Returned(q, "error", "NONE"))
               /\ UNCHANGED sequences
          ELSE /\ sequences' = [sequences EXCEPT ![name] = 1]
               /\ req' = SetReq(r, [q EXCEPT !.pc = "seqUpdate"])
    /\ UNCHANGED <<ledger, orders, docs, issued, contacts, started>>

\* const updated = await prisma.sequence.update({ data: { nextNumber: { increment: 1 } } });
\* return `${updated.prefix}-${number}`
SeqUpdate(r) ==
    /\ req[r].pc = "seqUpdate"
    /\ LET q == req[r]
           name == SeqNameOf(q.kind)
           updatedNext == SeqIncrement(sequences[name])
           value == SeqValue(name, updatedNext)
       IN /\ sequences' = [sequences EXCEPT ![name] = updatedNext]
          /\ issued' = [issued EXCEPT ![name] = Append(@, value)]
          /\ req' = SetReq(r, [q EXCEPT !.pc = "createRow", !.number = value])
    /\ UNCHANGED <<ledger, orders, docs, contacts, started>>

\* const isCustomCategory = body.categoryId && body.categoryId.includes('-')
IsCustomCategory(categoryId) == categoryId \in CustomCategoryIds

\* categoryId: isCustomCategory ? body.categoryId : null
CategoryIdOf(categoryId) ==
    IF IsCustomCategory(categoryId) THEN categoryId ELSE NoCategory

\* prisma.product.create: purchasePrice: body.purchasePrice, salePrice:
\* body.salePrice, category: isCustomCategory ? 'CUSTOM' : (body.categoryId ||
\* 'RAW_MATERIAL'), categoryId: isCustomCategory ? body.categoryId : null
NewProduct(q) ==
    [purchasePrice |-> q.purchasePrice.value, salePrice |-> q.salePrice.value,
     category |-> IF IsCustomCategory(q.categoryId) THEN "CUSTOM"
                  ELSE IF q.categoryId = "UNDEFINED" THEN "RAW_MATERIAL"
                  ELSE q.categoryId,
     categoryId |-> CategoryIdOf(q.categoryId),
     analyticalAccountId |-> NoAccount]

\* every product row has both prices: a create without one throws, and the
\* handler answers 500
CreateRefused(q) == ~q.purchasePrice.given \/ ~q.salePrice.given

\* const order = await prisma.purchaseOrder.create({ data: { orderNumber, status:
\*   body.status || 'DRAFT', subtotal, taxAmount, totalAmount, lines: { create: lines } } })
\* const product = await prisma.product.create({ data: { code, ... } })
\* const contact = await prisma.contact.create({ data: { code, ... } })
CreateRow(r) ==
    /\ req[r].pc = "createRow"
    /\ LET q == req[r]
       IN IF q.kind = "PO_POST"
          THEN /\ orders' = [orders EXCEPT !["PO"] =
                                Append(@, NewOrder(Len(@) + 1, q.number, q.status, q.lines))]
               /\ req' = SetReq(r, [Returned(q, "ok", "NONE") EXCEPT
                                       !.id = Len(orders["PO"]) + 1])
               /\ UNCHANGED <<contacts, products>>
          ELSE IF q.kind = "PRODUCT_POST"
          THEN /\ products' = IF CreateRefused(q) THEN products
                               ELSE Append(products, NewProduct(q))
               /\ req' = SetReq(r, Returned(q, IF CreateRefused(q) THEN "error" ELSE "ok",
                                            "NONE"))
               /\ UNCHANGED <<orders, contacts>>
          ELSE /\ contacts' = Append(contacts, q.number)
               /\ req' = SetReq(r, Returned(q, "ok", "NONE"))
               /\ UNCHANGED <<orders, products>>
    /\ UNCHANGED <<rules, payments, today, page, budgets, docs, sequences, issued,
                   started>>

----------------------------------------------------------------------------
(* POST /api/products and PUT /api/products/[id]                           *)

BodyPrices == {NoPrice, Price(40), Price(60)}

\* body.categoryId: absent, a default of the enumeration, a category's id
BodyCategories == {"UNDEFINED", "FINISHED_GOODS", "C"}

\* a < b of two body values: false when either is undefined
JsLess(a, b) == a.given /\ b.given /\ a.value < b.value

\* POST: if (body.salePrice < body.purchasePrice) return 400;
\* const code = await getNextSequence('product'), whose first await is
\* prisma.sequence.findUnique
ProductPostBegin(r, sale, purchase, categoryId) ==
    /\ Free(r)
    /\ LET q == [IdleReq EXCEPT !.kind = "PRODUCT_POST", !.salePrice = sale,
                                !.purchasePrice = purchase,
                                !.categoryId = categoryId]
       IN req' = SetReq(r, IF JsLess(sale, purchase)
                           THEN Returned(q, "error", "NONE")
                           ELSE [q EXCEPT !.pc = IF sequences["product"] = 0
                                                 THEN "seqCreate" ELSE "seqUpdate"])
    /\ started' = started + 1
    /\ UNCHANGED <<orders, docs, sequences, issued, contacts, ledger>>

\* PUT: if (body.salePrice !== undefined && body.purchasePrice !== undefined)
\*        if (body.salePrice < body.purchasePrice) return 400
PutRefused(sale, purchase) == sale.given /\ purchase.given /\ JsLess(sale, purchase)

\* await prisma.product.update({ where: { id }, data: { purchasePrice:
\*   body.purchasePrice, salePrice: body.salePrice, category: isCustomCategory ?
\*   'CUSTOM' : (body.categoryId || undefined), categoryId: isCustomCategory ?
\*   body.categoryId : null, ... } }): a key that is undefined leaves its
\* column as it is, null is written
ProductPut(r, id, sale, purchase, categoryId) ==
    /\ Free(r)
    /\ id \in DOMAIN products
    /\ LET q == [IdleReq EXCEPT !.kind = "PRODUCT_PUT", !.id = id, !.salePrice = sale,
                                !.purchasePrice = purchase,
                                !.categoryId = categoryId]
           row == [products[id] EXCEPT
                      !.purchasePrice = IF purchase.given THEN purchase.value ELSE @,
                      !.salePrice = IF sale.given THEN sale.value ELSE @,
                      !.category = IF IsCustomCategory(categoryId) THEN "CUSTOM"
                                   ELSE IF categoryId = "UNDEFINED" THEN @
                                   ELSE categoryId,
                      !.categoryId = CategoryIdOf(categoryId)]
       IN IF PutRefused(sale, purchase)
          THEN /\ req' = SetReq(r, Returned(q, "error", "NONE"))
               /\ UNCHANGED products
          ELSE /\ req' = SetReq(r, Returned(q, "ok", "NONE"))
               /\ products' = [products EXCEPT ![id] = row]
    /\ started' = started + 1
    /\ UNCHANGED <<orders, docs, sequences, issued, contacts, rules, payments, today,
                   page, budgets>>

----------------------------------------------------------------------------
(* Payments: the invoice page, the vendor-bill page and the payments page  *)
(* in front of POST /api/payments and DELETE /api/payments/[id]            *)

\* amounts a payment form is submitted with, in hundredths
PayAmounts == {0 - 100, 0, 10000, 13600, 23600}

\* const amountDue = parseFloat(payingInvoice.totalAmount) - parseFloat(payingInvoice.paidAmount)
AmountDue(doc) == doc.totalAmount - doc.paidAmount

\* the amounts of the live payment rows of document i of the family
PaidSum(fam, i) ==
    SumSeq([k \in DOMAIN payments |->
               IF payments[k].live /\ payments[k].fam = fam /\ payments[k].doc = i
               THEN payments[k].amount ELSE 0])

\* openPaymentModal(invoice): setPayingInvoice(invoice), a row of the list the
\* page fetched
OpenPaymentModal(r, fam, i) ==
    /\ Free(r)
    /\ i \in DOMAIN docs[fam]
    /\ req' = SetReq(r, [IdleReq EXCEPT !.pc = "paymentModal", !.kind = "PAY_PAGE",
                                        !.fam = fam, !.id = i,
                                        !.queue = <<docs[fam][i]>>])
    /\ started' = started + 1
    /\ UNCHANGED <<orders, docs, sequences, issued, contacts, ledger>>

\* handlePayment: if (amount <= 0) return; if (amount > amountDue) return;
\* const res = await fetch('/api/payments', { method: 'POST', ... })
HandlePayment(r, amount) ==
    /\ req[r].pc = "paymentModal"
    /\ LET q == [req[r] EXCEPT !.amount = amount]
       IN req' = SetReq(r, IF amount <= 0 \/ amount > AmountDue(Head(q.queue))
                           THEN Returned(q, "rejected", "NONE")
                           ELSE [q EXCEPT !.pc = "postPayment"])
    /\ UNCHANGED <<orders, docs, sequences, issued, contacts, ledger, started>>

\* handleSubmit of the payments page: the form goes to POST /api/payments as it is
HandleSubmit(r, fam, i, amount) ==
    /\ Free(r)
    /\ i \in DOMAIN docs[fam]
    /\ req' = SetReq(r, [IdleReq EXCEPT !.pc = "postPayment", !.kind = "PAY_FORM",
                                        !.fam = fam, !.id = i, !.amount = amount])
    /\ started' = started + 1
    /\ UNCHANGED <<orders, docs, sequences, issued, contacts, ledger>>

\* the amount-due test left out
PaymentAcceptedPositive(amount, due) == amount > 0

\* recordPayment's preconditions: amount > 0 and amount <= totalAmount - paidAmount
PaymentAccepted(amount, due) == amount > 0 /\ amount <= due

\* the amount due as the submitting page saw it
DueAtRecordStale(q, doc) ==
    IF q.queue = <<>> THEN AmountDue(doc) ELSE AmountDue(Head(q.queue))

\* the amount due the precondition is tested against: the document's, read
\* in the transaction that records the payment
DueAtRecord(q, doc) == AmountDue(doc)

\* POST /api/payments: one transaction that tests the preconditions, inserts
\* the payment row and increments the document's paidAmount
RecordPayment(r) ==
    /\ req[r].pc = "postPayment"
    /\ LET q == req[r]
           doc == docs[q.fam][q.id]
       IN IF PaymentAccepted(q.amount, DueAtRecord(q, doc))
          THEN /\ payments' = Append(payments, [fam |-> q.fam, doc |-> q.id,
                                                amount |-> q.amount, live |-> TRUE])
               /\ docs' = [docs EXCEPT ![q.fam][q.id].paidAmount = @ + q.amount]
               /\ req' = SetReq(r, Returned(q, "ok", "NONE"))
          ELSE /\ req' = SetReq(r, Returned(q, "error", "NONE"))
               /\ UNCHANGED <<payments, docs>>
    /\ UNCHANGED <<orders, sequences, issued, contacts, products, rules, today, page,
                   budgets, started>>

\* handleDelete(id): const res = await fetch(`/api/payments/${id}`, { method: 'DELETE' })
HandleDelete(r, k) ==
    /\ Free(r)
    /\ k \in DOMAIN payments
    /\ req' = SetReq(r, [IdleReq EXCEPT !.pc = "deletePayment", !.kind = "PAY_DELETE",
                                        !.fam = payments[k].fam, !.id = k])
    /\ started' = started + 1
    /\ UNCHANGED <<orders, docs, sequences, issued, contacts, ledger>>

\* the decrement left out
PaidAfterDeleteKept(paid, amount) == paid

\* deleting a payment decrements the document's paidAmount by its amount
PaidAfterDelete(paid, amount) == paid - amount

\* DELETE /api/payments/[id]: removes the row and decrements paidAmount
DeletePayment(r) ==
    /\ req[r].pc = "deletePayment"
    /\ LET q == req[r]
           row == payments[q.id]
       IN IF row.live
          THEN /\ payments' = [payments EXCEPT ![q.id].live = FALSE]
               /\ docs' = [docs EXCEPT ![row.fam][row.doc].paidAmount =
                                          PaidAfterDelete(@, row.amount)]
               /\ req' = SetReq(r, Returned(q, "ok", "NONE"))
          ELSE /\ req' = SetReq(r, Returned(q, "error", "NONE"))
               /\ UNCHANGED <<payments, docs>>
    /\ UNCHANGED <<orders, sequences, issued, contacts, products, rules, today, page,
                   budgets, started>>

----------------------------------------------------------------------------
(* Specifications *)

BodyStatuses == Statuses \cup {"UNDEFINED"}

\* a request arrives at slot r
Begin(r) ==
    \/ \E fam \in Families : \E id \in OrderIds(fam) :
         \E st \in BodyStatuses, ls \in BodyLines : PutLinesBegin(r, fam, id, st, ls)
    \/ \E kind \in {"PUT", "PATCH"}, fam \in Families : \E id \in OrderIds(fam) :
         \E st \in Statuses : StatusBegin(r, kind, fam, id, st)
    \/ \E fam \in Families : \E id \in OrderIds(fam) : GetBegin(r, fam, id)
    \/ \E fam \in Families : \E id \in OrderIds(fam) : DeleteBegin(r, fam, id)
    \/ \E id \in 1..(Len(orders["PO"]) + 1), contactId \in Vendors :
         VendorConfirmBegin(r, id, contactId)
    \/ BackfillBegin(r)
    \/ \E st \in BodyStatuses, ls \in BodyLines : SeqCallBegin(r, "PO_POST", st, ls)
    \/ SeqCallBegin(r, "CONTACT_POST", "UNDEFINED", <<>>)

\* the handler at slot r resumes after an await
Step(r) ==
    \/ CreateMany(r)
    \/ UpdateHeader(r)
    \/ ConfirmUpdate(r)
    \/ SendEmail(r)
    \/ FindExisting(r)
    \/ FindLast(r)
    \/ CreateDoc(r)
    \/ CancelUpdate(r)
    \/ SeqCreate(r)
    \/ SeqUpdate(r)
    \/ CreateRow(r)

\* handlers interleave at their awaits
Next == \E r \in Reqs : (started < MaxRequests /\ Begin(r)) \/ Step(r)

Spec == Init /\ [][Next]_vars

\* each request ends before the next begins
NextSerial == (started < MaxSerial /\ Begin("r1")) \/ Step("r1")

SpecSerial == Init /\ [][NextSerial]_vars

\* the handlers that change an order's status or derive a document from it,
\* interleaved
BeginLifecycle(r) ==
    \/ \E kind \in {"PUT", "PATCH"}, fam \in Families : \E id \in OrderIds(fam) :
         \E st \in Statuses : StatusBegin(r, kind, fam, id, st)
    \/ \E fam \in Families : \E id \in OrderIds(fam) : DeleteBegin(r, fam, id)
    \/ \E id \in 1..(Len(orders["PO"]) + 1), contactId \in Vendors :
         VendorConfirmBegin(r, id, contactId)
    \/ BackfillBegin(r)

NextLifecycle ==
    \E r \in Reqs :
        \/ started < MaxRequests /\ BeginLifecycle(r)
        \/ ConfirmUpdate(r)
        \/ SendEmail(r)
        \/ FindExisting(r)
        \/ FindLast(r)
        \/ CreateDoc(r)
        \/ CancelUpdate(r)

SpecLifecycle == Init /\ [][NextLifecycle]_vars

\* only the callers of getNextSequence
NextSeq ==
    \E r \in Reqs :
        \/ /\ started < MaxRequests + 1
           /\ \/ SeqCallBegin(r, "PO_POST", "UNDEFINED", <<LineA>>)
              \/ SeqCallBegin(r, "CONTACT_POST", "UNDEFINED", <<>>)
        \/ SeqCreate(r)
        \/ SeqUpdate(r)
        \/ CreateRow(r)

SpecSeq == Init /\ [][NextSeq]_vars

\* the store after order 1 of each family was confirmed by a PUT and its
\* vendor bill (invoice) created
InitPayments ==
    /\ today = 1
    /\ page = NoPage
    /\ budgets = InitBudgets
    /\ products = InitProducts
    /\ rules = {RuleA, RuleB}
    /\ orders = [f \in Families |->
                    [InitOrders(IF f = "PO" THEN SeqPrefix("purchase_order") ELSE "SO")
                        EXCEPT ![1].status = "CONFIRMED"]]
    /\ docs = [f \in Families |->
                  <<NewDoc(orders[f][1], NextDocNumber(<<>>, f), SimpleDocStatus(f))>>]
    /\ sequences = [n \in SeqNames |-> IF n = "purchase_order" THEN 3 ELSE 0]
    /\ issued = [n \in SeqNames |->
                    IF n = "purchase_order"
                    THEN <<SeqValue(n, 2), SeqValue(n, 3)>> ELSE <<>>]
    /\ contacts = <<>>
    /\ payments = <<>>
    /\ req = [r \in Reqs |-> IdleReq]
    /\ started = 0

\* the payment pages and the payment routes, interleaved
NextPayments ==
    \E r \in Reqs :
        \/ /\ started < MaxRequests
           /\ \/ \E fam \in Families : \E i \in DOMAIN docs[fam] :
                    OpenPaymentModal(r, fam, i)
              \/ \E fam \in Families : \E i \in DOMAIN docs[fam] :
                    \E amount \in PayAmounts : HandleSubmit(r, fam, i, amount)
              \/ \E k \in DOMAIN payments : HandleDelete(r, k)
        \/ \E amount \in PayAmounts : HandlePayment(r, amount)
        \/ RecordPayment(r)
        \/ DeletePayment(r)

SpecPayments == InitPayments /\ [][NextPayments]_vars

\* the product routes, interleaved
NextProducts ==
    \E r \in Reqs :
        \/ /\ started < MaxRequests
           /\ \/ \E sale \in BodyPrices, purchase \in BodyPrices :
                    \E categoryId \in BodyCategories :
                        ProductPostBegin(r, sale, purchase, categoryId)
              \/ \E id \in DOMAIN products :
                    \E sale \in BodyPrices, purchase \in BodyPrices :
                        \E categoryId \in BodyCategories :
                            ProductPut(r, id, sale, purchase, categoryId)
        \/ SeqCreate(r)
        \/ SeqUpdate(r)
        \/ CreateRow(r)

SpecProducts == Init /\ [][NextProducts]_vars

\* a day passes
Tick ==
    /\ today < MaxDay
    /\ today' = today + 1
    /\ UNCHANGED <<orders, docs, sequences, issued, contacts, products, rules,
                   payments, page, budgets, req, started>>

\* requests one after another, on any day
NextDates == NextSerial \/ Tick

SpecDates == Init /\ [][NextDates]_vars

\* the totalAmount and paidAmount of the rows a page is given, in hundredths
RowAmounts == {0, 1, 100, 5000, 10000, 13600, 23600, 30000}

\* const getPaymentStatus = (invoice) => { const total = parseFloat(invoice.totalAmount) || 0;
\*   const paid = parseFloat(invoice.paidAmount) || 0;
\*   if (paid >= total && total > 0) return 'PAID';
\*   if (paid > 0) return 'PARTIAL'; return 'NOT_PAID' }
\* for the decimal columns of a stored row, which parse to their number
GetPaymentStatus(row) ==
    LET total == row.totalAmount
        paid == row.paidAmount
    IN IF paid >= total /\ total > 0 THEN "PAID"
       ELSE IF paid > 0 THEN "PARTIAL"
       ELSE "NOT_PAID"

\* the page is given a row
InitStatus ==
    /\ today = 1
    /\ budgets = InitBudgets
    /\ page \in [totalAmount : RowAmounts, paidAmount : RowAmounts, badge : {"NONE"}]
    /\ products = InitProducts
    /\ rules = {RuleA, RuleB}
    /\ orders = [f \in Families |->
                    InitOrders(IF f = "PO" THEN SeqPrefix("purchase_order") ELSE "SO")]
    /\ docs = [f \in Families |-> <<>>]
    /\ sequences = [n \in SeqNames |-> IF n = "purchase_order" THEN 3 ELSE 0]
    /\ issued = [n \in SeqNames |->
                    IF n = "purchase_order"
                    THEN <<SeqValue(n, 2), SeqValue(n, 3)>> ELSE <<>>]
    /\ contacts = <<>>
    /\ payments = <<>>
    /\ req = [r \in Reqs |-> IdleReq]
    /\ started = 0

\* <StatusBadge status={getPaymentStatus(invoice)} />
ShowStatus ==
    /\ page.badge = "NONE"
    /\ page' = [page EXCEPT !.badge = GetPaymentStatus(page)]
    /\ UNCHANGED <<orders, docs, sequences, issued, contacts, products, rules,
                   payments, today, budgets, req, started>>

SpecStatus == InitStatus /\ [][ShowStatus]_vars

\* purchase orders created and lines replaced, one request after another,
\* with bodies whose taxes have a third decimal place
NextTotals ==
    \/ /\ started < MaxSerial + 1
       /\ \/ \E ls \in SmallLines : SeqCallBegin("r1", "PO_POST", "UNDEFINED", ls)
          \/ \E fam \in Families : \E id \in OrderIds(fam) : \E ls \in SmallLines :
                PutLinesBegin("r1", fam, id, "UNDEFINED", ls)
    \/ SeqUpdate("r1")
    \/ CreateRow("r1")
    \/ CreateMany("r1")
    \/ UpdateHeader("r1")

SpecTotals == Init /\ [][NextTotals]_vars

\* handleRevise on the budgets page, for the selected budget b:
\* const res = await fetch('/api/budgets', { method: 'POST', body: { status:
\*   'REVISED', stage: 'REVISED', revisedBudgetId: selectedBudget.id, ... } })
HandleRevise(r, b) ==
    /\ Free(r)
    /\ b \in DOMAIN budgets
    /\ budgets[b].stage = "CONFIRM"
    /\ req' = SetReq(r, [IdleReq EXCEPT !.pc = "postBudget", !.kind = "REVISE",
                                        !.id = b])
    /\ started' = started + 1
    /\ UNCHANGED <<orders, docs, sequences, issued, contacts, products, rules,
                   payments, today, page, budgets>>

\* POST /api/budgets: prisma.budget.create({ data: { stage: body.stage ||
\*   'DRAFT', revisedBudgetId: body.revisedBudgetId, ... } }), answering 201,
\* or 500 from its catch; the page: if (!res.ok) throw, caught with
\* toast.error('Failed to revise budget')
PostBudget(r) ==
    /\ req[r].pc = "postBudget"
    /\ \E dbError \in BOOLEAN :
          IF dbError
          THEN /\ req' = SetReq(r, Returned(req[r], "error", "NONE"))
               /\ UNCHANGED budgets
          ELSE /\ budgets' = Append(budgets, [stage |-> "REVISED",
                                              revisedBudgetId |-> req[r].id])
               /\ req' = SetReq(r, [req[r] EXCEPT !.pc = "putBudget"])
    /\ UNCHANGED <<orders, docs, sequences, issued, contacts, products, rules,
                   payments, today, page, started>>

\* how the second request can end: the update done, an error answer (401,
\* 404, 500), or fetch itself rejecting
PutOutcomes == {"updated", "errorAnswer", "rejected"}

\* await fetch(`/api/budgets/${selectedBudget.id}`, { method: 'PUT', body: {
\*   status: 'REVISED', stage: 'REVISED' } }), whose answer is not read;
\* toast.success('Budget revised'); a rejected fetch goes to the catch.
\* PUT /api/budgets/[id]: prisma.budget.update({ data: { stage: body.stage, ... } })
PutBudget(r) ==
    /\ req[r].pc = "putBudget"
    /\ \E outcome \in PutOutcomes :
          /\ budgets' = IF outcome = "updated"
                        THEN [budgets EXCEPT ![req[r].id].stage = "REVISED"]
                        ELSE budgets
          /\ req' = SetReq(r, Returned(req[r],
                                       IF outcome = "rejected" THEN "error" ELSE "ok",
                                       "NONE"))
    /\ UNCHANGED <<orders, docs, sequences, issued, contacts, products, rules,
                   payments, today, page, started>>

\* revisions from the budgets page, interleaved
NextBudgets ==
    \E r \in Reqs :
        \/ started < MaxRequests + 1 /\ \E b \in DOMAIN budgets : HandleRevise(r, b)
        \/ PostBudget(r)
        \/ PutBudget(r)

SpecBudgets == Init /\ [][NextBudgets]_vars

----------------------------------------------------------------------------
(* Properties *)

HasOrder(fam, id) == id \in OrderIds(fam)

\* slot r begins a request in this step
Begins(r) ==
    /\ Free(r)
    /\ started' = started + 1
    /\ \A o \in Reqs \ {r} : req'[o] = req[o]

ConfirmKinds == {"PUT_LINES", "PUT", "PATCH", "VENDOR_CONFIRM"}

\* C1: under any interleaving of confirm requests for one order, at most one
\* vendor bill (invoice) references that order.
C1_AtMostOneDocPerOrder ==
    \A fam \in Families : \A id \in OrderIds(fam) :
        Cardinality(DocsOf(fam, id)) <= 1

\* C2: when requests run one after another, an order that has a derived
\* document gets no further one, and no existing document row ever changes.
C2_RetriggerCreatesNothing ==
    [][\A fam \in Families :
          /\ \A i \in DOMAIN docs[fam] :
                i \in DOMAIN docs'[fam] /\ docs'[fam][i] = docs[fam][i]
          /\ \A id \in OrderIds(fam) :
                DocsOf(fam, id) # {} => DocsOf(fam, id)' = DocsOf(fam, id)]_vars

\* C2 witness: a confirm request on an order with a document has returned
\* after finding the existing document.
C2_Witness ==
    /\ req["r1"].pc = "done"
    /\ req["r1"].status = "CONFIRMED"
    /\ req["r1"].doc = "existing"
    /\ Cardinality(DocsOf(req["r1"].fam, req["r1"].id)) = 1

LineUpdateInProgress(fam, id) ==
    \E r \in Reqs : /\ req[r].pc \in {"createMany", "updateHeader"}
                    /\ req[r].fam = fam
                    /\ req[r].id = id

\* C3: whenever no line update of an order is in progress, its totalAmount
\* is the sum of its stored lines' lineTotal, and subtotal + taxAmount =
\* totalAmount.
C3_TotalsMatchLines ==
    \A fam \in Families : \A id \in OrderIds(fam) :
        ~LineUpdateInProgress(fam, id) =>
            /\ orders[fam][id].totalAmount = SumLineTotals(orders[fam][id].lines)
            /\ orders[fam][id].subtotal + orders[fam][id].taxAmount
                  = orders[fam][id].totalAmount

\* C4: a DELETE that arrives for an order with a linked vendor bill (invoice)
\* is answered with an error and changes no order row.
C4_CancelWithDocRefused ==
    [][\A r \in Reqs :
          (/\ Begins(r)
           /\ req'[r].kind = "DELETE"
           /\ HasOrder(req'[r].fam, req'[r].id)
           /\ DocsOf(req'[r].fam, req'[r].id) # {})
          => (/\ req'[r].pc = "done"
              /\ req'[r].resp = "error"
              /\ orders' = orders
              /\ docs' = docs)]_vars

\* C4 witness: a DELETE on an order with a linked document has returned its
\* error, the order not being cancelled.
C4_Witness ==
    \E r \in Reqs :
        /\ req[r].pc = "done"
        /\ req[r].kind = "DELETE"
        /\ req[r].resp = "error"
        /\ DocsOf(req[r].fam, req[r].id) # {}
        /\ orders[req[r].fam][req[r].id].status = "CONFIRMED"

\* C5: no order is CANCELLED while a derived document references it.
C5_NoCancelledWithDoc ==
    \A fam \in Families : \A id \in OrderIds(fam) :
        orders[fam][id].status = "CANCELLED" => DocsOf(fam, id) = {}

AllowedTransitions ==
    {<<"DRAFT", "SENT">>, <<"SENT", "CONFIRMED">>, <<"DRAFT", "CANCELLED">>,
     <<"SENT", "CANCELLED">>, <<"CONFIRMED", "CANCELLED">>}

\* C6: an order is created DRAFT, and every later change of its status is
\* DRAFT->SENT, SENT->CONFIRMED or DRAFT/SENT/CONFIRMED->CANCELLED.
C6_StatusTransitions ==
    [][\A fam \in Families : \A id \in OrderIds(fam)' :
          IF id \in OrderIds(fam)
          THEN \/ orders'[fam][id].status = orders[fam][id].status
               \/ <<orders[fam][id].status, orders'[fam][id].status>>
                     \in AllowedTransitions
          ELSE orders'[fam][id].status = "DRAFT"]_vars

\* C7: when a handler that set an order's status to CONFIRMED has returned
\* and document creation did not fail, a derived document references the order.
C7_ConfirmedHasDoc ==
    \A r \in Reqs :
        (/\ req[r].pc = "done"
         /\ req[r].kind \in ConfirmKinds
         /\ req[r].status = "CONFIRMED"
         /\ req[r].resp = "ok"
         /\ req[r].doc # "failed")
        => DocsOf(req[r].fam, req[r].id) # {}

\* C8: when creating the vendor bill (invoice) fails during a confirm, the
\* handler returns its success response, the order is CONFIRMED, and nothing
\* stored changes in the failing step.
C8_FailureKeepsConfirmation ==
    [][\A r \in Reqs :
          (/\ req[r].pc = "createDoc"
           /\ req[r].kind \in ConfirmKinds
           /\ req'[r].doc = "failed")
          => (/\ req'[r].pc = "done"
              /\ req'[r].resp = "ok"
              /\ orders'[req[r].fam][req[r].id].status = "CONFIRMED"
              /\ docs' = docs)]_vars

\* C8 witness: a confirm whose document creation failed has returned; the
\* order is CONFIRMED and has no document.
C8_Witness ==
    /\ req["r1"].pc = "done"
    /\ req["r1"].kind \in ConfirmKinds
    /\ req["r1"].doc = "failed"
    /\ req["r1"].resp = "ok"
    /\ orders[req["r1"].fam][req["r1"].id].status = "CONFIRMED"
    /\ DocsOf(req["r1"].fam, req["r1"].id) = {}

\* C9: the values getNextSequence returned for one name are pairwise distinct
\* and strictly increasing in the order they were issued.
C9_SequenceValuesIncrease ==
    \A name \in SeqNames : \A i, j \in DOMAIN issued[name] :
        i < j => /\ issued[name][i] # issued[name][j]
                 /\ ParseInt(issued[name][i].digits) < ParseInt(issued[name][j].digits)

\* C9 witness: two callers both made the first call for "contact" (one lost
\* the race to create the row and failed), and two values have been issued.
C9_Witness ==
    /\ \E r \in Reqs : /\ req[r].kind = "CONTACT_POST"
                       /\ req[r].pc = "done"
                       /\ req[r].resp = "error"
    /\ Len(issued["contact"]) >= 2

\* C10: bill (invoice) numbers are pairwise distinct across the documents,
\* and no two confirmations in flight have computed the same next number.
C10_DistinctDocNumbers ==
    /\ \A fam \in Families : \A i, j \in DOMAIN docs[fam] :
          i # j => docs[fam][i].number # docs[fam][j].number
    /\ \A r, o \in Reqs :
          (/\ r # o
           /\ req[r].pc = "createDoc"
           /\ req[o].pc = "createDoc"
           /\ req[r].fam = req[o].fam)
          => req[r].number # req[o].number

\* C11: the n-th purchase order created is numbered 'PO-' followed by n
\* zero-padded to 5 digits.
C11_PurchaseOrderNumbers ==
    [][\A i \in DOMAIN orders'["PO"] :
          i \notin DOMAIN orders["PO"]
          => orders'["PO"][i].orderNumber = FormatNumber("PO", i, SeqPadding)]_vars

DocIds(fam) == DOMAIN docs[fam]

\* C12: the payments recorded against a vendor bill (invoice) never sum to
\* more than its totalAmount, and a payment request that ends with an amount
\* <= 0 or above totalAmount - paidAmount is refused, paidAmount and the
\* payment rows staying as they were, from whichever page it came.
C12_PaymentsWithinTotal ==
    /\ [](\A fam \in Families : \A i \in DocIds(fam) :
             PaidSum(fam, i) <= docs[fam][i].totalAmount)
    /\ [][\A r \in Reqs :
             (/\ req[r].pc \in {"paymentModal", "postPayment"}
              /\ req'[r].pc = "done"
              /\ \/ req'[r].amount <= 0
                 \/ req'[r].amount > AmountDue(docs[req[r].fam][req[r].id]))
             => (/\ req'[r].resp \in {"rejected", "error"}
                 /\ docs' = docs
                 /\ payments' = payments)]_vars

\* C12 witness: the payments page submitted a positive amount above the
\* amount due of a partly paid document and was answered with an error.
C12_Witness ==
    \E r \in Reqs :
        /\ req[r].pc = "done"
        /\ req[r].kind = "PAY_FORM"
        /\ req[r].resp = "error"
        /\ req[r].amount > 0
        /\ docs[req[r].fam][req[r].id].paidAmount > 0
        /\ req[r].amount > AmountDue(docs[req[r].fam][req[r].id])

\* C13: paidAmount never exceeds totalAmount, and a payment is accepted only
\* when its amount is within the amount due at the moment it is recorded,
\* paidAmount rising by exactly that amount in the same step.
C13_AtomicCheckAndIncrement ==
    /\ [](\A fam \in Families : \A i \in DocIds(fam) :
             docs[fam][i].paidAmount <= docs[fam][i].totalAmount)
    /\ [][\A r \in Reqs :
             (req[r].pc = "postPayment" /\ req'[r].resp = "ok")
             => LET doc == docs[req[r].fam][req[r].id]
                IN /\ req[r].amount <= AmountDue(doc)
                   /\ docs'[req[r].fam][req[r].id].paidAmount
                         = doc.paidAmount + req[r].amount]_vars

\* C13 witness: two payments for one document left the page's own check,
\* each within the amount due the page showed and together above the total;
\* one was recorded and the other refused.
C13_Witness ==
    /\ req["r1"].kind = "PAY_PAGE" /\ req["r2"].kind = "PAY_PAGE"
    /\ req["r1"].fam = req["r2"].fam /\ req["r1"].id = req["r2"].id
    /\ req["r1"].pc = "done" /\ req["r2"].pc = "done"
    /\ req["r1"].resp = "ok" /\ req["r2"].resp = "error"
    /\ req["r1"].amount + req["r2"].amount
          > docs[req["r1"].fam][req["r1"].id].totalAmount
    /\ req["r2"].amount <= docs[req["r1"].fam][req["r1"].id].totalAmount

C15_SalePriceNotBelowPurchasePrice ==
    \A id \in DOMAIN products :
        products[id].salePrice >= products[id].purchasePrice

\* C16: the lines an order create or a line-replacing update stores carry,
\* where the body gave no cost centre, the analyticalAccountId of the most
\* specific rule matching the line's product and the order's counterparty:
\* rule B's for a line of category C on an order of partner P.
C16_MostSpecificRuleWins ==
    [][\A r \in Reqs :
          /\ (req[r].pc = "createRow" /\ req[r].kind = "PO_POST")
             => LET created == orders'["PO"][Len(orders'["PO"])]
                IN \A i \in DOMAIN req[r].lines :
                      created.lines[i].analyticalAccountId
                         = ResolveAnalyticalAccount(req[r].lines[i], created.partnerId)
          /\ req[r].pc = "createMany"
             => LET updated == orders'[req[r].fam][req[r].id]
                IN \A i \in DOMAIN req[r].lines :
                      updated.lines[i].analyticalAccountId
                         = ResolveAnalyticalAccount(req[r].lines[i], updated.partnerId)]_vars

\* C17: every vendor bill's (invoice's) totalAmount is the sum of lineTotal
\* over its own lines.
C17_DocTotalIsSumOfItsLines ==
    \A fam \in Families : \A i \in DocIds(fam) :
        docs[fam][i].totalAmount = SumLineTotals(docs[fam][i].lines)

\* the order rows read by a GET that has returned or by a vendor confirm
\* on its way
Observed ==
    {Head(req[r].queue) : r \in {o \in Reqs :
        \/ req[o].kind = "GET" /\ req[o].pc = "done"
        \/ req[o].kind = "VENDOR_CONFIRM" /\ req[o].pc = "confirmUpdate"}}

\* C18: no reader of an order sees it without lines, nor with lines whose
\* lineTotal do not sum to the header's totalAmount.
C18_NoTornRead ==
    \A order \in Observed :
        /\ order.lines # <<>>
        /\ order.totalAmount = SumLineTotals(order.lines)

\* C19: when a line-replacing PUT has ended in an error, the order's lines
\* and header totals are those it had when the request arrived.
C19_FailedUpdateRestoresOrder ==
    \A r \in Reqs :
        (/\ req[r].pc = "done"
         /\ req[r].kind = "PUT_LINES"
         /\ req[r].resp = "error")
        => LET order == orders[req[r].fam][req[r].id]
           IN /\ order.lines = req[r].before.lines
              /\ order.subtotal = req[r].before.subtotal
              /\ order.taxAmount = req[r].before.taxAmount
              /\ order.totalAmount = req[r].before.totalAmount

\* C20: a PUT carrying lines that arrives for an order whose status is not
\* DRAFT is answered with an error and leaves every order row as it was.
C20_LinesReplacedOnlyInDraft ==
    [][\A r \in Reqs :
          (/\ Begins(r)
           /\ req'[r].kind = "PUT_LINES"
           /\ orders[req'[r].fam][req'[r].id].status # "DRAFT")
          => (/\ req'[r].pc = "done"
              /\ req'[r].resp = "error"
              /\ orders' = orders)]_vars

\* a CONFIRMED order that no vendor bill (invoice) references
LacksDoc(fam, id) ==
    orders[fam][id].status = "CONFIRMED" /\ DocsOf(fam, id) = {}

\* C21: with requests run one after another, a CONFIRMED order without a
\* derived document can always have generation triggered again (by a
\* status request that sets CONFIRMED once more), the trigger gets past the
\* existence check, its creation can succeed, and a trigger that created a
\* document leaves exactly one for the order.
C21_GenerationCanBeRetried ==
    /\ \A fam \in Families : \A id \in OrderIds(fam) :
          (LacksDoc(fam, id) /\ Free("r1"))
          => ENABLED (/\ StatusBegin("r1", "PUT", fam, id, "CONFIRMED")
                      /\ req'["r1"].pc = "findExisting")
    /\ \A r \in Reqs :
          (req[r].pc = "findExisting" /\ DocsOf(req[r].fam, req[r].id) = {})
          => ENABLED (FindExisting(r) /\ req'[r].pc = "findLast")
    /\ \A r \in Reqs :
          req[r].pc = "createDoc"
          => ENABLED (CreateDoc(r) /\ Len(docs'[req[r].fam]) = Len(docs[req[r].fam]) + 1)
    /\ \A r \in Reqs :
          (req[r].pc = "done" /\ req[r].doc = "created" /\ req[r].kind # "BACKFILL")
          => Cardinality(DocsOf(req[r].fam, req[r].id)) = 1
    /\ \A r \in Reqs :
          (req[r].pc = "done" /\ req[r].kind = "BACKFILL")
          => \A id \in OrderIds("PO") :
                orders["PO"][id].status = "CONFIRMED"
                => Cardinality(DocsOf("PO", id)) <= 1

\* C21 witness: a first confirmation left purchase order 1 CONFIRMED without
\* a bill, and the backfill script, which takes only such orders, has created
\* its bill.
C21_Witness ==
    /\ req["r1"].pc = "done"
    /\ req["r1"].kind = "BACKFILL"
    /\ req["r1"].doc = "created"
    /\ orders["PO"][1].status = "CONFIRMED"
    /\ Cardinality(DocsOf("PO", 1)) = 1

LineFields ==
    {"productId", "quantity", "unitPrice", "taxRate", "taxAmount", "lineTotal",
     "analyticalAccountId"}

\* C22: with requests run one after another, the vendor bill (invoice) a
\* step creates has the subtotal, taxAmount and totalAmount the order has at
\* that step, paidAmount 0, and one line per order line, equal to it in
\* productId, quantity, unitPrice, taxRate, taxAmount, lineTotal and
\* analyticalAccountId.
C22_DocCopiesOrder ==
    [][\A fam \in Families : \A i \in DocIds(fam)' :
          i \notin DocIds(fam)
          => LET doc == docs'[fam][i]
                 order == orders[fam][doc.orderId]
             IN /\ doc.subtotal = order.subtotal
                /\ doc.taxAmount = order.taxAmount
                /\ doc.totalAmount = order.totalAmount
                /\ doc.paidAmount = 0
                /\ Len(doc.lines) = Len(order.lines)
                /\ \A k \in DOMAIN order.lines : \A f \in LineFields :
                      doc.lines[k][f] = order.lines[k][f]]_vars

\* C22 witness: a confirmation has created the bill of a purchase order with
\* two lines, each carrying a cost centre.
C22_Witness ==
    /\ req["r1"].pc = "done"
    /\ req["r1"].doc = "created"
    /\ \E i \in DocIds("PO") :
          /\ Len(docs["PO"][i].lines) = 2
          /\ docs["PO"][i].lines[1].analyticalAccountId # NoAccount
          /\ docs["PO"][i].lines = orders["PO"][docs["PO"][i].orderId].lines

\* what an order's lines and header totals are
OrderContent(order) ==
    <<order.lines, order.subtotal, order.taxAmount, order.totalAmount>>

\* C23: a step that changes the lines or the header totals of an order that
\* has a vendor bill (invoice) leaves every such document as it was: same
\* header, same lines.
C23_DocKeepsItsCopy ==
    [][\A fam \in Families : \A id \in OrderIds(fam) :
          OrderContent(orders'[fam][id]) # OrderContent(orders[fam][id])
          => \A i \in DocsOf(fam, id) :
                i \in DocIds(fam)' /\ docs'[fam][i] = docs[fam][i]]_vars

\* C23 witness: a line update has finished on an order whose bill was created
\* before it, and the bill still has the one line and the total the order had.
C23_Witness ==
    /\ req["r1"].pc = "done"
    /\ req["r1"].kind = "PUT_LINES"
    /\ req["r1"].resp = "ok"
    /\ Len(orders["PO"][1].lines) = 2
    /\ \E i \in DocsOf("PO", 1) :
          /\ Len(docs["PO"][i].lines) = 1
          /\ docs["PO"][i].totalAmount # orders["PO"][1].totalAmount

\* C24: every vendor bill (invoice) has dueDate equal to its order's
\* expectedDate when the order has one, else to the order's orderDate plus 30
\* days, whatever the day of the confirmation.
C24_DueDateFromOrder ==
    \A fam \in Families : \A i \in DocIds(fam) :
        LET doc == docs[fam][i]
            order == orders[fam][doc.orderId]
        IN doc.dueDate = IF order.expectedDate # NoDate THEN order.expectedDate
                         ELSE order.orderDate + DueDays

\* C25: with requests run one after another, a vendor's confirm on an order
\* that does not exist, belongs to another vendor or is not SENT is answered
\* 404, 403 or 400 and changes no order and no bill; a vendor's confirm sets
\* CONFIRMED only on an order that is SENT and whose vendor is the caller.
C25_VendorConfirmGuards ==
    [][\A r \in Reqs :
          /\ (Begins(r) /\ req'[r].kind = "VENDOR_CONFIRM")
             => LET id == req'[r].id
                    found == HasOrder("PO", id)
                    owned == found /\ orders["PO"][id].partnerId = req'[r].caller
                    sent == found /\ orders["PO"][id].status = "SENT"
                IN IF found /\ owned /\ sent
                   THEN req'[r].pc = "confirmUpdate"
                   ELSE /\ req'[r].pc = "done"
                        /\ req'[r].resp = "error"
                        /\ req'[r].code = IF ~found THEN 404
                                          ELSE IF ~owned THEN 403 ELSE 400
                        /\ orders' = orders
                        /\ docs' = docs
          /\ (req[r].kind = "VENDOR_CONFIRM" /\ ~Free(r) /\ orders' # orders)
             => /\ orders["PO"][req[r].id].status = "SENT"
                /\ orders["PO"][req[r].id].partnerId = req[r].caller
                /\ orders' = SetOrder("PO", req[r].id,
                                [orders["PO"][req[r].id] EXCEPT !.status = "CONFIRMED"])]_vars

\* C25 witness: another vendor's confirm on the SENT order was answered 403
\* after the order's own vendor had confirmed a SENT order of theirs.
C25_Witness ==
    /\ req["r1"].pc = "done"
    /\ req["r1"].kind = "VENDOR_CONFIRM"
    /\ req["r1"].code = 403
    /\ orders["PO"][req["r1"].id].status = "SENT"
    /\ DocsOf("PO", req["r1"].id) = {}

\* C26: with requests run one after another, a request that set an order's
\* status to SENT and whose email failed (sendEmail returned false, the
\* email block threw, or the counterparty has no address) answers success
\* and leaves the order SENT.
C26_EmailFailureKeepsSent ==
    [][\A r \in Reqs :
          /\ (req[r].pc = "sendEmail" /\ req'[r] # req[r])
             => /\ req'[r].pc = "done"
                /\ req'[r].resp = "ok"
                /\ orders' = orders
                /\ orders[req[r].fam][req[r].id].status = "SENT"
          /\ (Begins(r) /\ req'[r].email = "noAddress")
             => /\ req'[r].pc = "done"
                /\ req'[r].resp = "ok"
                /\ orders'[req'[r].fam][req'[r].id].status = "SENT"
          /\ (Begins(r) /\ req'[r].pc = "sendEmail")
             => orders'[req'[r].fam][req'[r].id].status = "SENT"]_vars

\* C26 witness: the second request sent an order, the email block threw, and
\* the request answered success with the order SENT.
C26_Witness ==
    /\ started = 2
    /\ req["r1"].pc = "done"
    /\ req["r1"].email = "thrown"
    /\ req["r1"].resp = "ok"
    /\ orders[req["r1"].fam][req["r1"].id].status = "SENT"

\* C27: the badge a page shows for a row with paidAmount >= 0 and
\* totalAmount >= 0 is NOT_PAID if paidAmount = 0, otherwise PAID if
\* paidAmount >= totalAmount, otherwise PARTIAL.
C27_PaymentStatus ==
    page.badge # "NONE"
    => page.badge = IF page.paidAmount = 0 THEN "NOT_PAID"
                    ELSE IF page.paidAmount >= page.totalAmount THEN "PAID"
                    ELSE "PARTIAL"

\* quantity * unitPrice * taxRate / 100 rounded half up to the hundredth
RoundedTax(line) ==
    (line.quantity * line.unitPrice * line.taxRate + Cents \div 2) \div Cents

\* C28: an order a create or a line update has just stored has, on every
\* line, taxAmount = quantity * unitPrice * taxRate / 100 rounded half up
\* once and lineTotal = quantity * unitPrice + that taxAmount, and header
\* taxAmount and totalAmount equal to the sums of the lines' taxAmount and
\* lineTotal.
C28_RoundedOncePerLine ==
    [][\A r \in Reqs :
          (/\ req[r].kind \in {"PO_POST", "PUT_LINES"}
           /\ req[r].pc \in {"createRow", "updateHeader"}
           /\ req'[r].pc = "done"
           /\ req'[r].resp = "ok")
          => LET order == orders'[req'[r].fam][req'[r].id]
             IN /\ \A k \in DOMAIN order.lines :
                      /\ order.lines[k].taxAmount = RoundedTax(order.lines[k])
                      /\ order.lines[k].lineTotal =
                            order.lines[k].quantity * order.lines[k].unitPrice
                            + order.lines[k].taxAmount
                /\ order.taxAmount =
                      SumSeq([k \in DOMAIN order.lines |-> order.lines[k].taxAmount])
                /\ order.totalAmount = SumLineTotals(order.lines)]_vars

\* C29: every stored product has category CUSTOM exactly when its categoryId
\* is not null.
C29_CustomCategoryHasId ==
    \A id \in DOMAIN products :
        (products[id].category = "CUSTOM") <=> (products[id].categoryId # NoCategory)

\* the budgets that revise budget b
RevisionsOf(b) == {k \in DOMAIN budgets : budgets[k].revisedBudgetId = b}

\* C30: once a revision of budget B has finished, a budget revising B exists
\* and B's stage is REVISED or CANCELLED; when no revision of B is under
\* way, no budget revising B exists while B is still in stage CONFIRM, and a
\* budget revising B differs from B in stage.
C30_RevisionFlipsOriginal ==
    /\ \A r \in Reqs :
          (req[r].pc = "done" /\ req[r].kind = "REVISE" /\ req[r].resp = "ok")
          => /\ RevisionsOf(req[r].id) # {}
             /\ budgets[req[r].id].stage \in {"REVISED", "CANCELLED"}
    /\ \A b \in DOMAIN budgets :
          (\A r \in Reqs : ~(req[r].kind = "REVISE" /\ req[r].id = b /\ ~Free(r)))
          => \A k \in RevisionsOf(b) :
                /\ budgets[b].stage # "CONFIRM"
                /\ budgets[k].stage # budgets[b].stage

====
